---- MODULE Spec2Model ----
(***************************************************************************)
(* A model of src/main.py: the decorator classifier (decorator_names), the *)
(* documentation model (Doc, ClassDoc), the Markdown renderer              *)
(* (param_table_from, function_to_markdown, ClassDoc.__str__), the tree    *)
(* visitor (DocVisitor) and the endpoint writer of handle_docs.            *)
(*                                                                         *)
(* Text.  A decorator tag is searched for substrings and split on ':', so  *)
(* identifiers and tags are sequences of one-character strings.  Rendered  *)
(* Markdown is a sequence of pieces: the literal pieces of the templates   *)
(* and f-strings, and the substituted values, in the order the code        *)
(* concatenates them.                                                      *)
(*                                                                         *)
(* An optional Python value is a sequence of length at most one: <<>> is   *)
(* None and <<v>> is the value v.                                          *)
(***************************************************************************)
EXTENDS Integers, Sequences, FiniteSets, TLC

VARIABLES
    decorator_list, \* the node.decorator_list handed to decorator_names
    tree,           \* the syntax tree handed to DocVisitor.visit
    cls,            \* a ClassDoc on its own: [name, doc, methods, decorators]
    classes,        \* Doc.classes: a list of ClassDoc
    functions,      \* Doc.functions: a dict in insertion order, as a list of [name, doc]
    endpoints,      \* Doc.endpoints: a dict, name -> decorator tag
    calls,          \* how many append_* calls the Doc has completed, per operation
    last            \* the most recent call: its operation, arguments and result

vars == <<decorator_list, tree, cls, classes, functions, endpoints, calls, last>>

(***************************************************************************)
(* Bounds of the model.                                                    *)
(***************************************************************************)
MaxDecorators == 2  \* decorators on one node
MaxCalls == 3       \* append_* calls made on one Doc
MaxNodes == 3       \* definitions and compound statements in one syntax tree

None == <<>>
Some(v) == <<v>>

(***************************************************************************)
(* Python's str operations, on sequences of characters.                    *)
(***************************************************************************)
\* point in text
Contains(text, point) ==
    \E i \in 1..(Len(text) - Len(point) + 1) :
        SubSeq(text, i, i + Len(point) - 1) = point

\* sep.join(parts)
RECURSIVE Join(_, _)
Join(sep, parts) ==
    IF parts = <<>> THEN <<>>
    ELSE IF Len(parts) = 1 THEN parts[1]
    ELSE parts[1] \o sep \o Join(sep, Tail(parts))

\* text.split(sep), sep one character
RECURSIVE SplitFrom(_, _, _)
SplitFrom(text, sep, piece) ==
    IF text = <<>> THEN <<piece>>
    ELSE IF Head(text) = sep THEN <<piece>> \o SplitFrom(Tail(text), sep, <<>>)
    ELSE SplitFrom(Tail(text), sep, Append(piece, Head(text)))

Split(text, sep) == SplitFrom(text, sep, <<>>)

UpperChar(c) ==
    CASE c = "a" -> "A" [] c = "b" -> "B" [] c = "c" -> "C" [] c = "e" -> "E"
      [] c = "f" -> "F" [] c = "g" -> "G" [] c = "h" -> "H" [] c = "o" -> "O"
      [] c = "p" -> "P" [] c = "r" -> "R" [] c = "s" -> "S" [] c = "t" -> "T"
      [] c = "u" -> "U" [] OTHER -> c

\* text.upper()
Upper(text) == [i \in 1..Len(text) |-> UpperChar(text[i])]

\* the index of the last occurrence of c in text, 0 when there is none
LastIndex(text, c) ==
    LET at == {i \in 1..Len(text) : text[i] = c}
    IN  IF at = {} THEN 0 ELSE CHOOSE i \in at : \A j \in at : j <= i

\* Path(text).stem: the last path component without its suffix
Stem(text) ==
    LET parts == SelectSeq(Split(text, "/"), LAMBDA p : p # <<>>)
        name == IF parts = <<>> THEN <<>> ELSE parts[Len(parts)]
        dot == LastIndex(name, ".")
    IN  IF dot > 1 /\ dot < Len(name) THEN SubSeq(name, 1, dot - 1) ELSE name

(***************************************************************************)
(* The decorator classifier.                                               *)
(* A decorator expression is a record with a kind: Name (id), Attribute    *)
(* (attr), Call (func, args), Constant (type, value) or Subscript.         *)
(***************************************************************************)
endpoint_decorators ==
    << <<"g", "e", "t">>, <<"p", "o", "s", "t">>, <<"p", "u", "t">> >>

Returned(value) == [raised |-> "", value |-> value]
Raised(error) == [raised |-> error, value |-> <<>>]

\* name.func.id for a Name; name.func.attr otherwise, which only an Attribute has
grab_id(name) ==
    IF name.func.kind = "Name" THEN Returned(name.func.id)
    ELSE IF name.func.kind = "Attribute" THEN Returned(name.func.attr)
    ELSE Raised("AttributeError")

\* the args list the loop over name.args builds: the value of every Constant
ConstantArgs(name) ==
    SelectSeq(name.args, LAMBDA arg : arg.kind = "Constant")

\* ', '.join(args): every item has to be a str
JoinArgs(args) ==
    IF \E i \in 1..Len(args) : args[i].type # "str" THEN Raised("TypeError")
    ELSE Returned(Join(<<",", " ">>, [i \in 1..Len(args) |-> args[i].value]))

RECURSIVE decorator_names_loop(_, _)
decorator_names_loop(rest, names) ==
    IF rest = <<>> THEN Returned(names)
    ELSE LET name == Head(rest) IN
        IF name.kind = "Name"
        THEN decorator_names_loop(Tail(rest), Append(names, name.id))
        ELSE IF name.kind = "Call"
        THEN LET n == grab_id(name)
                 joined == JoinArgs(ConstantArgs(name))
             IN  IF n.raised # "" THEN Raised(n.raised)
                 ELSE IF joined.raised # "" THEN Raised(joined.raised)
                 ELSE decorator_names_loop(
                          Tail(rest), Append(names, n.value \o <<":">> \o joined.value))
        ELSE decorator_names_loop(Tail(rest), names)

decorator_names(list) == decorator_names_loop(list, <<>>)

(***************************************************************************)
(* The Markdown renderer.                                                  *)
(* A docstring is [short_description, params, returns]; a parameter is     *)
(* [arg_name, type_name, description, default], default optional; returns  *)
(* is optional and holds [type_name].                                      *)
(***************************************************************************)
\* the backtick character, which a TLA+ string cannot hold, as a piece of its own
BT == "BACKTICK"

\* the no-break space (U+00A0) that the row of the method table holds, likewise
NBSP == "NBSP"

RECURSIVE Concat(_)
Concat(pieces) ==
    IF pieces = <<>> THEN <<>> ELSE Head(pieces) \o Concat(Tail(pieces))

\* p.default or '*is required*'
DefaultCell(p) ==
    IF p.default = None \/ p.default = Some("") THEN "*is required*"
    ELSE p.default[1]

param_row(p) ==
    <<"| ", p.arg_name, " | ", p.type_name, " | ", p.description, " | ",
      DefaultCell(p), " |\n">>

param_table_from(params) ==
    IF Len(params) = 0 THEN <<>>
    ELSE <<"**Parameters:**\n\n| Name | Type | Description | Default |\n| --- | --- | --- | --- |\n">>
         \o Concat([i \in 1..Len(params) |-> param_row(params[i])])

\* ', '.join([f'{n.arg_name}: {n.type_name}' for n in doc.params])
RECURSIVE params_text(_)
params_text(params) ==
    IF params = <<>> THEN <<>>
    ELSE <<params[1].arg_name, ": ", params[1].type_name>>
         \o (IF Len(params) = 1 THEN <<>> ELSE <<", ">> \o params_text(Tail(params)))

\* function_template, substituted
function_to_markdown(name, doc) ==
    <<"## ", BT, name, "(">> \o params_text(doc.params) \o <<")", BT, "\n">>
    \o <<doc.short_description, "\n\n">>
    \o param_table_from(doc.params) \o <<"\n">>

(***************************************************************************)
(* ClassDoc.  methods is a dict in insertion order: a list of [name, doc]  *)
(* with no name twice.                                                     *)
(***************************************************************************)
ClassDoc(name, doc, decorators) ==
    [name |-> name, doc |-> doc, methods |-> <<>>, decorators |-> decorators]

Keys(dict) == {dict[i].name : i \in 1..Len(dict)}

\* dict[name] = doc: an old key keeps its place, a new key goes last
DictSet(dict, name, doc) ==
    IF name \in Keys(dict)
    THEN [i \in 1..Len(dict) |->
            IF dict[i].name = name THEN [name |-> name, doc |-> doc] ELSE dict[i]]
    ELSE Append(dict, [name |-> name, doc |-> doc])

append_method(c, name, doc) ==
    [c EXCEPT !.methods = DictSet(c.methods, name, doc)]

\* the Returns cell: the literal None cell when doc.returns is None, else the type name
returns_cell(doc) ==
    IF doc.returns = None THEN <<BT, "None", BT>>
    ELSE <<BT, doc.returns[1].type_name, BT>>

\* method_row without the test for __init__
method_row_with_init(m) ==
    <<"| ", BT, m.name, BT, " | ", m.doc.short_description, NBSP, "| ">>
    \o returns_cell(m.doc) \o <<" |\n">>

\* one pass of the loop that builds the table: __init__ is skipped
method_row(m) ==
    IF m.name = "__init__" THEN <<>>
    ELSE <<"| ", BT, m.name, BT, " | ", m.doc.short_description, NBSP, "| ">>
         \o returns_cell(m.doc) \o <<" |\n">>

method_table(methods) ==
    IF Len(methods) # 0
    THEN <<"\n**Methods:**\n\n| Name | Description | Returns |\n| --- | --- | --- |\n">>
         \o Concat([i \in 1..Len(methods) |-> method_row(methods[i])])
    ELSE <<>>

\* method_block without the test for the sentinel description
method_block_always(m) == <<"\n">> \o function_to_markdown(m.name, m.doc)

\* one pass of the loop that appends the function blocks
method_block(m) ==
    IF m.doc.short_description # "None"
    THEN <<"\n">> \o function_to_markdown(m.name, m.doc)
    ELSE <<>>

\* ClassDoc.__str__
class_str(c) ==
    LET desc == IF c.doc.short_description = "None" THEN " "
                ELSE c.doc.short_description
    IN  <<"# ", BT, "class", BT, " ", c.name, "\n", desc, "\n">>
        \o method_table(c.methods) \o <<"\n\n---\n">>
        \o Concat([i \in 1..Len(c.methods) |-> method_block(c.methods[i])])

(***************************************************************************)
(* Doc.                                                                    *)
(***************************************************************************)
\* the decorators the two loops of append_function find a point in, in order
matching(decorators) ==
    SelectSeq(decorators,
              LAMBDA decorator :
                  \E p \in 1..Len(endpoint_decorators) :
                      Contains(decorator, endpoint_decorators[p]))

\* self.endpoints after the loops: every match assigns endpoints[name]
append_function_endpoints(eps, name, decorators) ==
    LET found == matching(decorators)
    IN  IF found = <<>> THEN eps
        ELSE [n \in DOMAIN eps \cup {name} |->
                 IF n = name THEN found[Len(found)] ELSE eps[n]]

\* Doc.__init__
NewDoc ==
    [classes |-> <<>>, functions |-> <<>>, endpoints |-> [n \in {} |-> <<>>],
     calls |-> [append_class |-> 0, append_function |-> 0, append_method |-> 0]]

\* Doc.append_class: self afterwards; the new ClassDoc is the last of self.classes
append_class(self, name, doc, decorators) ==
    [self EXCEPT !.classes = Append(@, ClassDoc(name, doc, decorators)),
                 !.calls.append_class = @ + 1]

\* append_function that returns at a match, before it stores the function
append_function_returns_early(self, name, doc, decorators) ==
    [self EXCEPT !.endpoints = append_function_endpoints(@, name, decorators),
                 !.functions = IF matching(decorators) # <<>> THEN @
                               ELSE DictSet(@, name, doc),
                 !.calls.append_function = @ + 1]

\* Doc.append_function: self afterwards
append_function(self, name, doc, decorators) ==
    [self EXCEPT !.endpoints = append_function_endpoints(@, name, decorators),
                 !.functions = DictSet(@, name, doc),
                 !.calls.append_function = @ + 1]

\* new_class.append_method, new_class the ClassDoc at self.classes[i]
class_append_method(self, i, name, doc) ==
    [self EXCEPT !.classes[i] = append_method(@, name, doc),
                 !.calls.append_method = @ + 1]

\* compile with the else branch lost: an endpoint's function goes to both lists
compile_without_else(cs, fs, eps) ==
    [class_docs |-> [i \in 1..Len(cs) |-> class_str(cs[i])],
     func_docs |-> [i \in 1..Len(fs) |-> function_to_markdown(fs[i].name, fs[i].doc)],
     endpoint_docs |->
        LET kept == SelectSeq(fs, LAMBDA f : f.name \in DOMAIN eps)
        IN  [i \in 1..Len(kept) |->
                <<kept[i].name, function_to_markdown(kept[i].name, kept[i].doc),
                  eps[kept[i].name]>>]]

\* Doc.compile: the three lists it returns
compile(cs, fs, eps) ==
    [class_docs |-> [i \in 1..Len(cs) |-> class_str(cs[i])],
     func_docs |->
        LET kept == SelectSeq(fs, LAMBDA f : f.name \notin DOMAIN eps)
        IN  [i \in 1..Len(kept) |-> function_to_markdown(kept[i].name, kept[i].doc)],
     endpoint_docs |->
        LET kept == SelectSeq(fs, LAMBDA f : f.name \in DOMAIN eps)
        IN  [i \in 1..Len(kept) |->
                <<kept[i].name, function_to_markdown(kept[i].name, kept[i].doc),
                  eps[kept[i].name]>>]]

\* handle_docs, one pass of its loop over the endpoints: the file it writes
endpoint_file(entry) ==
    LET http_ == Split(entry[3], ":")
    IN  IF Len(http_) < 2 THEN Raised("IndexError")
        ELSE Returned([new_file |-> Stem(http_[2]) \o <<".", "m", "d">>,
                       text |-> <<"# ", Upper(http_[1]), " ", BT, http_[2], "/", BT, " \n\n">>
                                \o entry[2]])

\* the loop over the endpoints: it ends at the first pass that raises
RECURSIVE endpoint_files(_, _)
endpoint_files(entries, written) ==
    IF entries = <<>> THEN Returned(written)
    ELSE LET file == endpoint_file(Head(entries))
         IN  IF file.raised # "" THEN Raised(file.raised)
             ELSE endpoint_files(Tail(entries), Append(written, file.value))

(***************************************************************************)
(* The tree visitor.                                                       *)
(* A node is [kind, name, body, decorator_list, docstring], its kind       *)
(* Module, ClassDef, FunctionDef or Other (a compound statement that is    *)
(* no definition: if, for, with, try).  body lists the compound statements *)
(* of the node's body; simple statements, which the visitor passes over    *)
(* with no effect, are left out.                                           *)
(***************************************************************************)
\* docstring_parse(get_docstring(node).__str__()): a missing docstring reads "None"
grab_doc(node) ==
    IF node.docstring = None
    THEN [short_description |-> "None", params |-> <<>>, returns |-> None]
    ELSE node.docstring[1]

\* DocVisitor.__init__: self.doc, and the exception that ended the visit, if any
DocVisitor == NewDoc @@ [raised |-> ""]

RECURSIVE visit(_, _), visit_each(_, _), visit_methods(_, _, _)

\* NodeVisitor.generic_visit: visit every child; the definitions are in body
generic_visit(node, self) == visit_each(node.body, self)

visit_Module(node, self) == generic_visit(node, self)

visit_FunctionDef(node, self) ==
    LET names == decorator_names(node.decorator_list)
    IN  IF names.raised # "" THEN [self EXCEPT !.raised = names.raised]
        ELSE generic_visit(node,
                 append_function(self, node.name, grab_doc(node), names.value))

visit_ClassDef(node, self) ==
    LET names == decorator_names(node.decorator_list)
        appended == append_class(self, node.name, grab_doc(node), names.value)
        new_class == Len(appended.classes)
    IN  IF names.raised # "" THEN [self EXCEPT !.raised = names.raised]
        ELSE generic_visit(node, visit_methods(node.body, new_class, appended))

\* the loop of visit_ClassDef over node.body
visit_methods(body, new_class, self) ==
    IF body = <<>> \/ self.raised # "" THEN self
    ELSE LET content == Head(body)
         IN  IF content.kind = "FunctionDef"
             THEN visit_methods(Tail(body), new_class,
                      generic_visit(content,
                          class_append_method(self, new_class, content.name,
                                              grab_doc(content))))
             ELSE visit_methods(Tail(body), new_class, self)

\* a loop over nodes that visits each; an exception ends it
visit_each(nodes, self) ==
    IF nodes = <<>> \/ self.raised # "" THEN self
    ELSE visit_each(Tail(nodes), visit(Head(nodes), self))

\* NodeVisitor.visit: dispatch on the node's kind
visit(node, self) ==
    CASE node.kind = "Module" -> visit_Module(node, self)
      [] node.kind = "FunctionDef" -> visit_FunctionDef(node, self)
      [] node.kind = "ClassDef" -> visit_ClassDef(node, self)
      [] OTHER -> generic_visit(node, self)

(***************************************************************************)
(* Inputs.                                                                 *)
(***************************************************************************)
NameNode(id) == [kind |-> "Name", id |-> id]
AttributeNode(attr) == [kind |-> "Attribute", attr |-> attr]
CallNode(func, args) == [kind |-> "Call", func |-> func, args |-> args]
StrNode(value) == [kind |-> "Constant", type |-> "str", value |-> value]
IntNode(value) == [kind |-> "Constant", type |-> "int", value |-> value]
SubscriptNode == [kind |-> "Subscript"]

s_get == <<"g", "e", "t">>
s_post == <<"p", "o", "s", "t">>
s_put == <<"p", "u", "t">>
s_foo == <<"f", "o", "o">>
s_target == <<"t", "a", "r", "g", "e", "t">>
s_route == <<"r", "o", "u", "t", "e">>
s_cache == <<"c", "a", "c", "h", "e">>
s_getter == <<"g", "e", "t", "t", "e", "r">>
s_a == <<"/", "a">>
s_b == <<"/", "b">>
s_users == <<"/", "u", "s", "e", "r", "s">>
s_get_items == <<"/", "g", "e", "t", "-", "i", "t", "e", "m", "s">>
s_posts == <<"/", "p", "o", "s", "t", "s">>
s_x == <<"/", "x">>

\* decorators that decorator_names takes without raising
PlainDecorators ==
    { NameNode(s_foo),                                  \* @foo
      NameNode(s_get),                                  \* @get
      NameNode(s_target),                               \* @target
      AttributeNode(s_get),                             \* @app.get
      CallNode(NameNode(s_get), <<StrNode(s_a)>>),      \* @get("/a")
      CallNode(AttributeNode(s_post), <<StrNode(s_b)>>),      \* @app.post("/b")
      CallNode(AttributeNode(s_post), <<StrNode(s_users)>>),  \* @app.post("/users")
      CallNode(NameNode(s_route), <<StrNode(s_get_items)>>),  \* @route("/get-items")
      CallNode(NameNode(s_cache), <<StrNode(s_posts)>>),      \* @cache("/posts")
      CallNode(NameNode(s_getter), <<StrNode(s_x)>>),         \* @getter("/x")
      CallNode(NameNode(s_get), <<NameNode(s_x)>>),           \* @get(x)
      CallNode(NameNode(s_put), <<StrNode(s_a), NameNode(s_x), StrNode(s_b)>>) }
                                                        \* @put("/a", x, "/b")

\* decorators with a callee that is neither a name nor an attribute, or with a
\* constant argument that is no string
OddDecorators ==
    { CallNode(CallNode(NameNode(s_route), <<>>), <<StrNode(s_a)>>),  \* @route()("/a")
      CallNode(SubscriptNode, <<StrNode(s_a)>>),                      \* @routes[0]("/a")
      CallNode(AttributeNode(s_get), <<IntNode(<<"1">>)>>),           \* @app.get(1)
      CallNode(NameNode(s_get), <<StrNode(s_a), IntNode(<<"2">>)>>) } \* @get("/a", 2)

\* the sequences over S of length at most n
RECURSIVE SeqsUpTo(_, _)
SeqsUpTo(S, n) ==
    IF n = 0 THEN {<<>>}
    ELSE LET shorter == SeqsUpTo(S, n - 1)
         IN  shorter \cup {Append(q, x) : q \in shorter, x \in S}

DecoratorLists == SeqsUpTo(PlainDecorators \cup OddDecorators, MaxDecorators)

\* the tag lists a visit hands to append_function: what decorator_names returns
TagListsOf(nodes) ==
    {decorator_names(list).value : list \in SeqsUpTo(nodes, MaxDecorators)}

TagLists == TagListsOf(PlainDecorators)

\* the same, from three decorators: one that is no endpoint's and two that are
FewTagLists ==
    TagListsOf({ NameNode(s_foo),
                 CallNode(NameNode(s_get), <<StrNode(s_a)>>),
                 CallNode(AttributeNode(s_post), <<StrNode(s_b)>>) })

ClassTagLists == {<<>>, <<s_foo>>}

Param(arg_name, type_name, description, default) ==
    [arg_name |-> arg_name, type_name |-> type_name,
     description |-> description, default |-> default]

Docstring(short_description, params, returns) ==
    [short_description |-> short_description, params |-> params, returns |-> returns]

Bool == Some([type_name |-> "bool"])

NoDocstring == Docstring("None", <<>>, None)
RunsIt == Docstring("Runs it.", <<Param("times", "int", "How often.", Some("1"))>>, Bool)
BuildsIt ==
    Docstring("Builds it.",
              <<Param("name", "str", "Its name.", None),
                Param("size", "int", "Its size.", Some(""))>>,
              None)
NoneBool == Docstring("None", <<>>, Bool)

FunctionNames == {"list_users", "helper"}
FunctionDocstrings == {NoDocstring, RunsIt}
ClassNames == {"Runner"}
ClassDocstrings == {NoDocstring, BuildsIt}
MethodNames == {"__init__", "run", "stop"}
MethodDocstrings == {NoDocstring, NoneBool, RunsIt, BuildsIt}

\* syntax trees: the bodies with at most n definitions and compound statements
TreeNode(kind, name, body, decorators) ==
    [kind |-> kind, name |-> name, body |-> body,
     decorator_list |-> decorators, docstring |-> None]

Statements(body) ==
    { TreeNode("ClassDef", "Runner", body, <<>>),
      TreeNode("FunctionDef", "run", body, <<>>),
      TreeNode("FunctionDef", "run", body,
               <<CallNode(AttributeNode(s_get), <<IntNode(<<"1">>)>>)>>),
      TreeNode("Other", "", body, <<>>) }

RECURSIVE Bodies(_)
Bodies(n) ==
    IF n = 0 THEN {<<>>}
    ELSE {<<>>} \cup
         UNION { UNION { { <<first>> \o rest : first \in Statements(inner) }
                         : inner \in Bodies(k), rest \in Bodies(n - 1 - k) }
                 : k \in 0..(n - 1) }

Module(body) == TreeNode("Module", "", body, <<>>)

\* how many nodes of a kind a body holds, at any depth
RECURSIVE Count(_, _)
Count(body, kind) ==
    IF body = <<>> THEN 0
    ELSE (IF Head(body).kind = kind THEN 1 ELSE 0)
         + Count(Head(body).body, kind) + Count(Tail(body), kind)

(***************************************************************************)
(* State.                                                                  *)
(***************************************************************************)
NoCall == [op |-> "", value |-> None]
Call(op, value) == [op |-> op, value |-> value]

self == [classes |-> classes, functions |-> functions,
         endpoints |-> endpoints, calls |-> calls]

Becomes(doc) ==
    /\ classes' = doc.classes
    /\ functions' = doc.functions
    /\ endpoints' = doc.endpoints
    /\ calls' = doc.calls

Fresh ==
    /\ classes = NewDoc.classes
    /\ functions = NewDoc.functions
    /\ endpoints = NewDoc.endpoints
    /\ calls = NewDoc.calls
    /\ last = NoCall

(***************************************************************************)
(* decorator_names on its own.                                             *)
(***************************************************************************)
InitDeco ==
    /\ decorator_list \in DecoratorLists
    /\ tree = Module(<<>>)
    /\ cls = ClassDoc("Runner", NoDocstring, <<>>)
    /\ Fresh

DecoratorNames ==
    /\ last.op = ""
    /\ last' = Call("decorator_names", decorator_names(decorator_list))
    /\ UNCHANGED <<decorator_list, tree, cls, classes, functions, endpoints, calls>>

NextDeco == DecoratorNames

SpecDeco == InitDeco /\ [][NextDeco]_vars

(***************************************************************************)
(* A visit of one syntax tree.                                             *)
(***************************************************************************)
InitVisit ==
    /\ decorator_list = <<>>
    /\ tree \in {Module(body) : body \in Bodies(MaxNodes)}
    /\ cls = ClassDoc("Runner", NoDocstring, <<>>)
    /\ Fresh

\* visitor = DocVisitor(path); visitor.visit(parse(source))
Visit ==
    /\ last.op = ""
    /\ LET visitor == visit(tree, DocVisitor)
       IN  /\ Becomes(visitor)
           /\ last' = Call("visit", visitor.raised)
    /\ UNCHANGED <<decorator_list, tree, cls>>

NextVisit == Visit

SpecVisit == InitVisit /\ [][NextVisit]_vars

(***************************************************************************)
(* One ClassDoc: append_method and __str__.                                *)
(***************************************************************************)
InitClass ==
    /\ decorator_list = <<>>
    /\ tree = Module(<<>>)
    /\ cls \in {ClassDoc(name, doc, <<>>) : name \in ClassNames, doc \in ClassDocstrings}
    /\ Fresh

ClassAppendMethod(name, doc) ==
    /\ cls' = append_method(cls, name, doc)
    /\ last' = Call("append_method", None)
    /\ UNCHANGED <<decorator_list, tree, classes, functions, endpoints, calls>>

ClassStr ==
    /\ last' = Call("__str__", class_str(cls))
    /\ UNCHANGED <<decorator_list, tree, cls, classes, functions, endpoints, calls>>

NextClass ==
    \/ \E name \in MethodNames, doc \in MethodDocstrings : ClassAppendMethod(name, doc)
    \/ ClassStr

SpecClass == InitClass /\ [][NextClass]_vars

(***************************************************************************)
(* One Doc: its append operations, compile, and the endpoint files.        *)
(***************************************************************************)
Init ==
    /\ decorator_list = <<>>
    /\ tree = Module(<<>>)
    /\ cls = ClassDoc("Runner", NoDocstring, <<>>)
    /\ Fresh

Appends == calls.append_class + calls.append_function + calls.append_method

AppendFunction(name, doc, decorators) ==
    /\ Appends < MaxCalls
    /\ Becomes(append_function(self, name, doc, decorators))
    /\ last' = Call("append_function", None)
    /\ UNCHANGED <<decorator_list, tree, cls>>

AppendClass(name, doc, decorators) ==
    /\ Appends < MaxCalls
    /\ LET appended == append_class(self, name, doc, decorators)
       IN  /\ Becomes(appended)
           /\ last' = Call("append_class", Some(appended.classes[Len(appended.classes)]))
    /\ UNCHANGED <<decorator_list, tree, cls>>

AppendMethod(i, name, doc) ==
    /\ Appends < MaxCalls
    /\ Becomes(class_append_method(self, i, name, doc))
    /\ last' = Call("append_method", None)
    /\ UNCHANGED <<decorator_list, tree, cls>>

\* compile that takes the classes off self.classes as it renders them
CompileConsuming ==
    /\ last' = Call("compile", compile(classes, functions, endpoints))
    /\ classes' = <<>>
    /\ UNCHANGED <<decorator_list, tree, cls, functions, endpoints, calls>>

Compile ==
    /\ last' = Call("compile", compile(classes, functions, endpoints))
    /\ UNCHANGED <<decorator_list, tree, cls, classes, functions, endpoints, calls>>

\* handle_docs from visitor.doc.compile() on: the endpoint files
WriteEndpoints ==
    /\ last' = Call("handle_docs",
                    endpoint_files(compile(classes, functions, endpoints).endpoint_docs, <<>>))
    /\ UNCHANGED <<decorator_list, tree, cls, classes, functions, endpoints, calls>>

Next ==
    \/ \E name \in FunctionNames, doc \in FunctionDocstrings, decorators \in FewTagLists :
          AppendFunction(name, doc, decorators)
    \/ \E name \in ClassNames, doc \in ClassDocstrings, decorators \in ClassTagLists :
          AppendClass(name, doc, decorators)
    \/ \E i \in 1..Len(classes), name \in MethodNames, doc \in FunctionDocstrings :
          AppendMethod(i, name, doc)
    \/ Compile
    \/ WriteEndpoints

Spec == Init /\ [][Next]_vars

(***************************************************************************)
(* One Doc, its functions only: append_function with every kind of tag,    *)
(* and the endpoint files.                                                 *)
(***************************************************************************)
NextEndpoints ==
    \/ \E name \in FunctionNames, doc \in FunctionDocstrings, decorators \in TagLists :
          AppendFunction(name, doc, decorators)
    \/ WriteEndpoints

SpecEndpoints == Init /\ [][NextEndpoints]_vars

(***************************************************************************)
(* Properties.                                                             *)
(***************************************************************************)
\* the text of a tag before its first colon
Prefix(tag) == Split(tag, ":")[1]

Verbs == {endpoint_decorators[p] : p \in 1..Len(endpoint_decorators)}

\* the endpoint rule as documented: a verb token within the prefix of the tag
PrefixHasVerb(tag) == \E verb \in Verbs : Contains(Prefix(tag), verb)

Names(dict) == [i \in 1..Len(dict) |-> dict[i].name]

Range(seq) == {seq[i] : i \in 1..Len(seq)}

Places(text) == [i \in 1..Len(text) |-> i]

\* the rows of the method table of a rendered class: [name, description, returns]
SummaryRows(text) ==
    LET at == SelectSeq(Places(text),
                        LAMBDA i : /\ i + 10 <= Len(text)
                                   /\ text[i] = "| "
                                   /\ text[i + 1] = BT
                                   /\ text[i + 3] = BT
                                   /\ text[i + 4] = " | ")
    IN  [k \in 1..Len(at) |->
            [name |-> text[at[k] + 2], description |-> text[at[k] + 5],
             returns |-> SubSeq(text, at[k] + 8, at[k] + 10)]]

\* the names of the function blocks of a rendered class, in the order of the text
DetailBlocks(text) ==
    LET at == SelectSeq(Places(text),
                        LAMBDA i : /\ i + 2 <= Len(text)
                                   /\ text[i] = "## "
                                   /\ text[i + 1] = BT)
    IN  [k \in 1..Len(at) |-> text[at[k] + 2]]

\* C1: append_function stores the first decorator tag, in list order, that matches
\* the endpoint rule; later matching tags are ignored.
C1_FirstMatchWins ==
    [][\A name \in FunctionNames, doc \in FunctionDocstrings, decorators \in FewTagLists :
          LET found == SelectSeq(decorators, PrefixHasVerb)
          IN  (AppendFunction(name, doc, decorators) /\ found # <<>>)
                  => (name \in DOMAIN endpoints' /\ endpoints'[name] = found[1])]_vars

\* C2: every key of Doc.endpoints is a key of Doc.functions.
C2_EndpointsAreFunctions == DOMAIN endpoints \subseteq Keys(functions)

\* C2: a name appended twice, with an endpoint recorded for it
C2_Witness ==
    /\ calls.append_function >= 2
    /\ Len(functions) = 1
    /\ DOMAIN endpoints # {}
    /\ Len(classes) >= 1

C4_PrefixOnly ==
    [][\A name \in FunctionNames, doc \in FunctionDocstrings, decorators \in TagLists :
          (AppendFunction(name, doc, decorators) /\ name \notin DOMAIN endpoints)
              => (name \in DOMAIN endpoints'
                     <=> \E i \in 1..Len(decorators) : PrefixHasVerb(decorators[i]))]_vars

\* C5: decorator_names raises for no decorator list: it returns the list of tags.
C5_NeverRaises ==
    last.op = "decorator_names" => last.value.raised = ""

\* the scenario of C6: __init__ with a description, and run that returns bool
RoundTrip ==
    /\ Range(Names(cls.methods)) = {"__init__", "run"}
    /\ \A i \in 1..Len(cls.methods) :
          /\ cls.methods[i].name = "__init__"
                => cls.methods[i].doc.short_description # "None"
          /\ cls.methods[i].name = "run" => cls.methods[i].doc.returns = Bool

RunIsDescribed ==
    \E i \in 1..Len(cls.methods) :
        /\ cls.methods[i].name = "run"
        /\ cls.methods[i].doc.short_description # "None"

OneRowForRun(text) ==
    /\ Names(SummaryRows(text)) = <<"run">>
    /\ SummaryRows(text)[1].returns = <<BT, "bool", BT>>

\* C6, as claimed: in the scenario the table has the one row of run, with the Returns
\* cell bool, and the only function block is the one of run, there when run has a
\* description.
C6_RoundTrip ==
    (last.op = "__str__" /\ RoundTrip)
        => /\ OneRowForRun(last.value)
           /\ DetailBlocks(last.value) = IF RunIsDescribed THEN <<"run">> ELSE <<>>

\* C6, amended: in the scenario the table has the one row of run, with the Returns
\* cell bool, and the function blocks are the one of __init__ and, when run has a
\* description, the one of run, in the order the methods were appended.
C6_RoundTripWithInit ==
    (last.op = "__str__" /\ RoundTrip)
        => /\ OneRowForRun(last.value)
           /\ DetailBlocks(last.value) =
                 SelectSeq(Names(cls.methods),
                           LAMBDA name : name = "__init__" \/ RunIsDescribed)

\* C6: the scenario, rendered, with run described
C6_Witness == last.op = "__str__" /\ RoundTrip /\ RunIsDescribed

\* C7: a method whose description is the sentinel has no function block, and has a
\* row in the table unless it is __init__; __init__ has no row; rows and blocks are
\* in the order the methods were appended.
C7_SentinelMethods ==
    last.op = "__str__" =>
        LET rows == Names(SummaryRows(last.value))
            blocks == DetailBlocks(last.value)
            names == Names(cls.methods)
        IN  /\ \A i \in 1..Len(cls.methods) :
                  cls.methods[i].doc.short_description = "None"
                      => /\ cls.methods[i].name \notin Range(blocks)
                         /\ cls.methods[i].name # "__init__"
                               => cls.methods[i].name \in Range(rows)
            /\ "__init__" \notin Range(rows)
            /\ rows = SelectSeq(names, LAMBDA name : name \in Range(rows))
            /\ blocks = SelectSeq(names, LAMBDA name : name \in Range(blocks))

\* C7: a rendered class with __init__, a method with the sentinel description and a
\* method with a description
C7_Witness ==
    /\ last.op = "__str__"
    /\ "__init__" \in Range(Names(cls.methods))
    /\ \E i, j \in 1..Len(cls.methods) :
          /\ cls.methods[i].name # "__init__"
          /\ cls.methods[i].doc.short_description = "None"
          /\ cls.methods[j].name # "__init__"
          /\ cls.methods[j].doc.short_description # "None"

\* C8: after a visit that finishes, Doc.classes has one ClassDoc per class definition
\* of the tree, and append_function was called once per function definition.
C8_OncePerDefinition ==
    (last.op = "visit" /\ last.value = "")
        => /\ Len(classes) = Count(tree.body, "ClassDef")
           /\ calls.append_function = Count(tree.body, "FunctionDef")

\* C9: compile puts every function in exactly one list: the endpoint tuples when its
\* name is in Doc.endpoints, as (name, markdown, endpoints[name]), the function
\* markdown otherwise; both lists in the order of Doc.functions; and one class
\* markdown per entry of Doc.classes, in order.
C9_CompilePartitions ==
    last.op = "compile" =>
        LET out == last.value
            routed == SelectSeq(functions, LAMBDA f : f.name \in DOMAIN endpoints)
            plain == SelectSeq(functions, LAMBDA f : f.name \notin DOMAIN endpoints)
        IN  /\ Len(out.func_docs) + Len(out.endpoint_docs) = Len(functions)
            /\ Len(out.endpoint_docs) = Len(routed)
            /\ \A i \in 1..Len(routed) :
                  out.endpoint_docs[i] =
                      <<routed[i].name, function_to_markdown(routed[i].name, routed[i].doc),
                        endpoints[routed[i].name]>>
            /\ Len(out.func_docs) = Len(plain)
            /\ \A i \in 1..Len(plain) :
                  out.func_docs[i] = function_to_markdown(plain[i].name, plain[i].doc)
            /\ Len(out.class_docs) = Len(classes)
            /\ \A i \in 1..Len(classes) : out.class_docs[i] = class_str(classes[i])

\* C9: compile has returned one function block, one endpoint tuple and a class
C9_Witness ==
    /\ last.op = "compile"
    /\ Len(last.value.func_docs) = 1
    /\ Len(last.value.endpoint_docs) = 1
    /\ Len(last.value.class_docs) = 1

\* C10: every stored route descriptor has a colon, and before its first colon exactly
\* get, post or put; so the endpoint files are written, each under a header whose
\* verb is GET, POST or PUT.
C10_DescriptorsUsable ==
    /\ \A name \in DOMAIN endpoints :
          /\ Len(Split(endpoints[name], ":")) >= 2
          /\ Prefix(endpoints[name]) \in Verbs
    /\ last.op = "handle_docs"
          => /\ last.value.raised = ""
             /\ \A i \in 1..Len(last.value.value) :
                   last.value.value[i].text[2] \in {Upper(verb) : verb \in Verbs}

====
